---- MODULE Spec2Model ----
(***************************************************************************)
(* Heart-rate zone, safety and exercise-recommendation engine of           *)
(* fitness-assistant-mcp.                                                   *)
(*                                                                         *)
(* Every entry point is modelled as a call: Init draws the arguments (and, *)
(* for the managers, the stored profile and exercise pool), the actions    *)
(* run the code of the entry point, and pc = "done" marks a returned call. *)
(*                                                                         *)
(* Arithmetic.  The Python code multiplies integers by float literals      *)
(* (0.60, 0.75, 0.95 ...) and truncates with int() or rounds with round(). *)
(* The operators below compute the same values in integer arithmetic; the  *)
(* integers where IEEE-754 doubles give another result than the exact      *)
(* product are listed in FloatLow70.                                       *)
(***************************************************************************)
EXTENDS Integers, Sequences, FiniteSets, TLC

VARIABLES
    pc,                 \* position of the call: "ready", a step name, "done"
    entry,              \* entry point that was called
    age,                \* age argument / UserProfile.age
    resting_hr,         \* resting_hr argument / UserProfile.resting_heart_rate (0 = None)
    current_hr,         \* current_hr argument
    fitness_level,      \* fitness_level argument / UserProfile.fitness_level
    health_conditions,  \* health_conditions argument / UserProfile.health_conditions
    hr_zones,           \* zone table computed by the call (NoResult before)
    current_zone,       \* zone of current_hr in hr_zones (NoResult before)
    preferences,        \* UserProfile.preferences
    session_duration,   \* session_duration argument of recommend_exercises
    workout_type,       \* workout_type argument
    available_equipment,\* available_equipment argument (None is given as ["none"], its default)
    pool,               \* rows of the exercises table, in the order queries return them
    type_idx,           \* position of the loop over exercise_types
    remaining_duration, \* local of _generate_exercise_recommendations
    recommendations,    \* local of _generate_exercise_recommendations
    queries,            \* the repository calls made so far, in order
    result,             \* value returned by the call (NoResult before it returns)
    now,                \* the clock datetime.now() reads
    args,               \* the arguments of the call that no other variable holds
    previous,           \* what the preceding call with the same inputs returned
    tasks,              \* the recommend_exercises coroutines in flight, by task
    frames              \* the local variables of each coroutine, by frame

\* what a call is given: its arguments, the stored profile and the pool
given == <<entry, age, resting_hr, fitness_level, health_conditions, preferences,
           session_duration, workout_type, available_equipment, pool, args>>
\* the locals of ExerciseManager.recommend_exercises and its helper
rec_locals == <<type_idx, remaining_duration, recommendations, queries>>

\* the clock and the result of the preceding call
calls == <<now, previous, tasks, frames>>

vars == <<pc, given, current_hr, hr_zones, current_zone, rec_locals, result, calls>>

\* the variables a call of one of the pure functions does not use
NoSession ==
    /\ preferences = <<>>
    /\ session_duration = 0
    /\ workout_type = "none"
    /\ available_equipment = <<>>
    /\ pool = <<>>
    /\ type_idx = 0
    /\ remaining_duration = 0
    /\ recommendations = <<>>
    /\ queries = <<>>
    /\ now = 0
    /\ previous = [status |-> "none"]
    /\ tasks = <<>>
    /\ frames = <<>>
    /\ args = <<>>

NoResult == [status |-> "none"]

(***************************************************************************)
(* Domains of the arguments.                                               *)
(***************************************************************************)
MinAge == 13
MaxAge == 120
MinCurrentHr == 40
MaxCurrentHr == 250
MaxConditions == 1

Ages == MinAge..MaxAge
CurrentHrs == MinCurrentHr..MaxCurrentHr
FitnessLevel == {"beginner", "intermediate", "advanced"}
\* check_heart_rate_safety takes the level as a plain str: "other" stands for
\* every string that is not a key of safety_limits
FitnessLevelArgs == FitnessLevel \cup {"other"}
HealthCondition == {"diabetes", "hypertension", "heart_disease", "asthma", "arthritis", "pregnancy"}

ConditionLists == UNION {[1..n -> HealthCondition] : n \in 0..MaxConditions}

(***************************************************************************)
(* utils/safety.py                                                         *)
(***************************************************************************)
\* a limit rounded to the nearest integer instead of truncated
IntPctRounded(n, pct) == (n * pct + 50) \div 100

\* int(n * 0.pct) for n >= 0 and pct in {75, 80, 85, 90}
IntPct(n, pct) == (n * pct) \div 100

\* safety_limits.get(fitness_level, 0.80), in percent
safety_limits(lvl) ==
    CASE lvl = "beginner" -> 75
      [] lvl = "intermediate" -> 85
      [] lvl = "advanced" -> 90
      [] OTHER -> 80

\* condition_limits: warning_threshold of a condition, 0 when it has no entry
warning_threshold(condition) ==
    CASE condition = "heart_disease" -> 70
      [] condition = "hypertension" -> 80
      [] condition = "diabetes" -> 85
      [] condition = "asthma" -> 80
      [] OTHER -> 0

\* a threshold test that also fires at the threshold itself
check_hr_condition_specific_ge(hr, max_hr, condition) ==
    IF warning_threshold(condition) # 0
       /\ hr * 100 >= warning_threshold(condition) * max_hr
    THEN <<condition>>
    ELSE <<>>

\* the alert texts, by tag:
\*   "critical_stop"     FC extremamente alta - PARE o exercicio imediatamente
\*   "above_safe_limit"  FC acima do limite seguro - Reduza a intensidade
\*   "low_hr"            FC muito baixa - Verifique se esta se exercitando ...
\*   a condition's name  condition_limits[condition]["message"]
check_hr_condition_specific(hr, max_hr, condition) ==
    IF warning_threshold(condition) # 0
       /\ hr * 100 > warning_threshold(condition) * max_hr
    THEN <<condition>>
    ELSE <<>>

\* is_safe starts as current_hr < safe_limit
BaseVerdictStrict(hr, max_hr, safe_limit) ==
    IF hr * 100 > max_hr * 95
    THEN [is_safe |-> FALSE, risk_level |-> "critical", alerts |-> <<"critical_stop">>]
    ELSE IF hr > safe_limit
    THEN [is_safe |-> FALSE, risk_level |-> "high", alerts |-> <<"above_safe_limit">>]
    ELSE IF hr * 100 > max_hr * 60
    THEN [is_safe |-> hr < safe_limit, risk_level |-> "moderate", alerts |-> <<>>]
    ELSE [is_safe |-> hr < safe_limit, risk_level |-> "low", alerts |-> <<>>]

\* lines 432-458: is_safe, risk_level and alerts before the conditions are read
BaseVerdict(hr, max_hr, safe_limit) ==
    IF hr * 100 > max_hr * 95
    THEN [is_safe |-> FALSE, risk_level |-> "critical", alerts |-> <<"critical_stop">>]
    ELSE IF hr > safe_limit
    THEN [is_safe |-> FALSE, risk_level |-> "high", alerts |-> <<"above_safe_limit">>]
    ELSE IF hr * 100 > max_hr * 60
    THEN [is_safe |-> hr <= safe_limit, risk_level |-> "moderate", alerts |-> <<>>]
    ELSE [is_safe |-> hr <= safe_limit, risk_level |-> "low", alerts |-> <<>>]

\* a loop body that assigns is_safe from the alerts instead of only clearing it
RECURSIVE ApplyConditionsReset(_, _, _, _)
ApplyConditionsReset(st, hr, max_hr, conds) ==
    IF conds = <<>> THEN st
    ELSE LET condition_alerts == check_hr_condition_specific(hr, max_hr, Head(conds))
             st2 == [is_safe |-> condition_alerts = <<>>,
                     risk_level |-> IF condition_alerts # <<>> THEN "high" ELSE st.risk_level,
                     alerts |-> st.alerts \o condition_alerts]
         IN  ApplyConditionsReset(st2, hr, max_hr, Tail(conds))

\* lines 460-467: for condition in health_conditions
RECURSIVE ApplyConditions(_, _, _, _)
ApplyConditions(st, hr, max_hr, conds) ==
    IF conds = <<>> THEN st
    ELSE LET condition_alerts == check_hr_condition_specific(hr, max_hr, Head(conds))
             st2 == [is_safe |-> IF condition_alerts # <<>> THEN FALSE ELSE st.is_safe,
                     risk_level |-> IF condition_alerts # <<>> THEN "high" ELSE st.risk_level,
                     alerts |-> st.alerts \o condition_alerts]
         IN  ApplyConditions(st2, hr, max_hr, Tail(conds))

suggest_next_hr_check(risk_level) ==
    CASE risk_level = "low" -> 15
      [] risk_level = "moderate" -> 10
      [] risk_level = "high" -> 5
      [] risk_level = "critical" -> 2
      [] OTHER -> 10

\* a low-HR note that is also appended at 50 itself
check_heart_rate_safety_le50(hr, a, lvl, conds) ==
    LET max_hr == 220 - a
        safe_limit == IntPct(max_hr, safety_limits(lvl))
        st == ApplyConditions(BaseVerdict(hr, max_hr, safe_limit), hr, max_hr, conds)
        alerts == IF hr <= 50 THEN st.alerts \o <<"low_hr">> ELSE st.alerts
    IN  [status |-> "returned",
         safe |-> st.is_safe,
         risk_level |-> st.risk_level,
         current_hr |-> hr,
         safe_limit |-> safe_limit,
         max_hr |-> max_hr,
         alerts |-> alerts,
         next_check_minutes |-> suggest_next_hr_check(st.risk_level)]

check_heart_rate_safety(hr, a, lvl, conds) ==
    LET max_hr == 220 - a
        safe_limit == IntPct(max_hr, safety_limits(lvl))
        st == ApplyConditions(BaseVerdict(hr, max_hr, safe_limit), hr, max_hr, conds)
        alerts == IF hr < 50 THEN st.alerts \o <<"low_hr">> ELSE st.alerts
    IN  [status |-> "returned",
         safe |-> st.is_safe,
         risk_level |-> st.risk_level,
         current_hr |-> hr,
         safe_limit |-> safe_limit,
         max_hr |-> max_hr,
         alerts |-> alerts,
         next_check_minutes |-> suggest_next_hr_check(st.risk_level)]

(***************************************************************************)
(* Calls of check_heart_rate_safety.                                       *)
(***************************************************************************)
InitSafety ==
    /\ pc = "ready"
    /\ entry = "check_heart_rate_safety"
    /\ age \in Ages
    /\ resting_hr = 0
    /\ current_hr \in CurrentHrs
    /\ fitness_level \in FitnessLevelArgs
    /\ health_conditions \in ConditionLists
    /\ hr_zones = NoResult
    /\ current_zone = NoResult
    /\ NoSession
    /\ result = NoResult

CheckHeartRateSafety ==
    /\ pc = "ready"
    /\ entry = "check_heart_rate_safety"
    /\ result' = check_heart_rate_safety(current_hr, age, fitness_level, health_conditions)
    /\ pc' = "done"
    /\ UNCHANGED <<given, calls, current_hr, hr_zones, current_zone, rec_locals>>

NextSafety == CheckHeartRateSafety

SpecSafety == InitSafety /\ [][NextSafety]_vars

SafetyReturned == pc = "done" /\ entry = "check_heart_rate_safety"

\* C1: check_heart_rate_safety never returns safe = TRUE when
\* current_hr > 0.95 * max_hr, whatever the age, level and conditions.
C1_NeverSafeAboveCritical ==
    (SafetyReturned /\ current_hr * 100 > 95 * (220 - age)) => result.safe = FALSE

C1_Witness ==
    /\ SafetyReturned
    /\ current_hr * 100 > 95 * (220 - age)
    /\ fitness_level = "other"
    /\ health_conditions = <<"arthritis">>
    /\ result.safe = FALSE

InSeq(x, s) == \E i \in DOMAIN s : s[i] = x
RemoveAt(s, i) == SubSeq(s, 1, i - 1) \o SubSeq(s, i + 1, Len(s))
RiskRank(r) == CASE r = "low" -> 0 [] r = "moderate" -> 1 [] r = "high" -> 2 [] r = "critical" -> 3

\* C2: health conditions only escalate the base verdict: the risk level returned
\* for a list of conditions is never lower (low < moderate < high < critical)
\* than the one returned for the same current_hr, age and level with no condition.
C2_ConditionsNeverDeescalate ==
    SafetyReturned =>
        RiskRank(result.risk_level) >=
            RiskRank(check_heart_rate_safety(current_hr, age, fitness_level, <<>>).risk_level)

\* the limits as the claims state them, in percent of max_hr
ClaimSafeLimitPct(lvl) ==
    CASE lvl = "beginner" -> 75 [] lvl = "intermediate" -> 85 [] lvl = "advanced" -> 90
ClaimThresholdPct(c) ==
    CASE c = "heart_disease" -> 70 [] c = "hypertension" -> 80
      [] c = "diabetes" -> 85 [] c = "asthma" -> 80
ClaimBaseVerdict(hr, max_hr, pct) ==
    IF 100 * hr > 95 * max_hr THEN <<"critical", FALSE>>
    ELSE IF 100 * hr > pct * max_hr THEN <<"high", FALSE>>
    ELSE IF 100 * hr > 60 * max_hr THEN <<"moderate", TRUE>>
    ELSE <<"low", TRUE>>

\* C8: with no health conditions the verdict follows the precedence
\* critical (> 0.95 max_hr), high (> safeLimit), moderate (> 0.60 max_hr), low,
\* with safeLimit the exact 0.75 / 0.85 / 0.90 of max_hr: truncating safe_limit
\* to an integer never changes the verdict.
C8_BaseVerdictByPrecedence ==
    (SafetyReturned /\ health_conditions = <<>> /\ fitness_level \in FitnessLevel) =>
        <<result.risk_level, result.safe>> =
            ClaimBaseVerdict(current_hr, 220 - age, ClaimSafeLimitPct(fitness_level))

\* a call where safe_limit was truncated and current_hr is the first integer above it
C8_Witness ==
    /\ SafetyReturned
    /\ health_conditions = <<>>
    /\ fitness_level = "beginner"
    /\ ((220 - age) * 75) % 100 # 0
    /\ current_hr = result.safe_limit + 1
    /\ result.risk_level = "high"
    /\ result.safe = FALSE

\* C9: a condition of the list whose threshold (heart_disease 70, hypertension 80,
\* diabetes 85, asthma 80 percent of max_hr) is exceeded makes the result unsafe,
\* at least high, with the condition's alert; a condition whose threshold is not
\* exceeded, arthritis and pregnancy add no alert and leave safe and risk level
\* as they are without that condition.
C9_ConditionThresholds ==
    SafetyReturned =>
        \A i \in DOMAIN health_conditions :
            LET c == health_conditions[i]
                breached == /\ c \in {"heart_disease", "hypertension", "diabetes", "asthma"}
                            /\ 100 * current_hr > ClaimThresholdPct(c) * (220 - age)
                without == check_heart_rate_safety(current_hr, age, fitness_level,
                                                   RemoveAt(health_conditions, i))
            IN  IF breached
                THEN /\ result.safe = FALSE
                     /\ result.risk_level \in {"high", "critical"}
                     /\ InSeq(c, result.alerts)
                ELSE /\ ~InSeq(c, result.alerts)
                     /\ result.alerts = without.alerts
                     /\ result.safe = without.safe
                     /\ result.risk_level = without.risk_level

\* heart_disease breached at 71 percent while the base verdict is moderate
C9_Witness ==
    /\ SafetyReturned
    /\ health_conditions = <<"heart_disease">>
    /\ fitness_level = "advanced"
    /\ 100 * current_hr = 71 * (220 - age)
    /\ result.safe = FALSE
    /\ result.risk_level = "high"
    /\ result.alerts = <<"heart_disease">>

(***************************************************************************)
(* Zone tables: utils/calculations.py, tools/heart_rate_calculator.py and  *)
(* the MCP tool of server.py.                                              *)
(***************************************************************************)
ZoneMinAge == 13
ZoneMaxAge == 100
MinRestingHr == 30
MaxRestingHr == 120
\* arguments are drawn this far outside the validated ranges
ArgMargin == 1

ZoneArgAges == (ZoneMinAge - ArgMargin)..(MaxAge + ArgMargin)
RestingArgs == (MinRestingHr - ArgMargin)..(MaxRestingHr + ArgMargin)

\* int(x) of Python for the rational x = num / den, den > 0: towards zero
Trunc(num, den) == IF num >= 0 THEN num \div den ELSE -((-num) \div den)

\* round(x) of Python for the rational x = num / den, den > 0: half to even
RoundHalfEven(num, den) ==
    LET q == num \div den
        r == num % den
    IN  IF 2 * r > den THEN q + 1
        ELSE IF 2 * r < den THEN q
        ELSE IF q % 2 = 0 THEN q ELSE q + 1

\* the n in -30..230 for which the double n * 0.70 (and 0.7 * n) lies just
\* below the integer 7n/10, so that int() returns one less; for the factors
\* 0.50, 0.60, 0.80 and 0.90 there is no such n in that range
FloatLow70 == {90, 170, 180}

\* int(n * 0.pct), pct in {50, 60, 70, 80, 90}
IntMul(n, pct) ==
    IF pct = 70 /\ n \in FloatLow70 THEN Trunc(n * pct, 100) - 1 ELSE Trunc(n * pct, 100)

\* int(resting_hr + (hr_reserve * 0.pct)): the sum of the doubles is the
\* double nearest to the exact value for resting_hr in 25..125 and
\* hr_reserve in -30..200
IntKarvonen(rest, reserve, pct) == Trunc(100 * rest + reserve * pct, 100)

ZoneIds == <<"zona_1", "zona_2", "zona_3", "zona_4", "zona_5">>
ZoneIntensity == <<"muito_baixa", "baixa", "moderada", "alta", "maxima">>
ZoneLowPct == <<50, 60, 70, 80, 90>>

\* utils.calculations.calculate_heart_rate_zones
calc_max_hr(a, method) ==
    IF method = "tanaka" THEN Trunc(2080 - 7 * a, 10) ELSE 220 - a

calculate_heart_rate_zones(a, rest, method) ==
    LET max_hr == calc_max_hr(a, method)
        hr_reserve == max_hr - rest
        bound(pct) == IF method = "karvonen"
                      THEN IntKarvonen(rest, hr_reserve, pct)
                      ELSE IntMul(max_hr, pct)
    IN  [status |-> "returned",
         max_hr |-> max_hr,
         resting_hr |-> rest,
         hr_reserve |-> hr_reserve,
         method |-> method,
         zones |-> [k \in 1..5 |->
                      [zone_id |-> ZoneIds[k],
                       lower |-> bound(ZoneLowPct[k]),
                       upper |-> IF k = 5 THEN max_hr ELSE bound(ZoneLowPct[k + 1]),
                       intensity |-> ZoneIntensity[k]]]]

\* server.py, the MCP tool calculate_heart_rate_zones: the printed table
server_calculate_heart_rate_zones(a, rest) ==
    IF a < 13 \/ a > 120 THEN [status |-> "ERRO: Idade"]
    ELSE IF rest < 30 \/ rest > 120 THEN [status |-> "ERRO: FC de repouso"]
    ELSE
    LET max_hr == 220 - a
        hr_reserve == max_hr - rest
    IN  [status |-> "returned",
         max_hr |-> max_hr,
         zones |-> [k \in 1..5 |->
                      [lower |-> rest + IntMul(hr_reserve, ZoneLowPct[k]),
                       upper |-> IF k = 5 THEN max_hr
                                 ELSE rest + IntMul(hr_reserve, ZoneLowPct[k + 1])]]]

\* HeartRateCalculator
zone_definitions == <<<<50, 60>>, <<60, 70>>, <<70, 80>>, <<80, 90>>, <<90, 100>>>>

\* the classic formula in the place of the default
calculate_max_heart_rate_fox(a, method) == 220 - a

calculate_max_heart_rate(a, method) ==
    IF method = "tanaka" THEN RoundHalfEven(2080 - 7 * a, 10)
    ELSE IF method = "fox" THEN 220 - a
    ELSE IF method = "nes" THEN RoundHalfEven(21100 - 64 * a, 100)
    ELSE RoundHalfEven(2080 - 7 * a, 10)

calculate_heart_rate_reserve(max_hr, rest) == max_hr - rest

calculate_target_heart_rate(hr_reserve, rest, intensity_min, intensity_max) ==
    <<RoundHalfEven(100 * rest + hr_reserve * intensity_min, 100),
      RoundHalfEven(100 * rest + hr_reserve * intensity_max, 100)>>

calculate_zones(a, rest, method) ==
    IF ~(13 <= a /\ a <= 100) THEN [status |-> "ValueError"]
    ELSE IF ~(30 <= rest /\ rest <= 120) THEN [status |-> "ValueError"]
    ELSE
    LET max_hr == calculate_max_heart_rate(a, "tanaka")
        hr_reserve == calculate_heart_rate_reserve(max_hr, rest)
        fc(k) == IF method = "max_hr_percentage"
                 THEN <<RoundHalfEven(max_hr * zone_definitions[k][1], 100),
                        RoundHalfEven(max_hr * zone_definitions[k][2], 100)>>
                 ELSE calculate_target_heart_rate(hr_reserve, rest,
                          zone_definitions[k][1], zone_definitions[k][2])
    IN  [status |-> "returned",
         user_age |-> a,
         resting_hr |-> rest,
         max_hr_estimated |-> max_hr,
         hr_reserve |-> hr_reserve,
         zones |-> [k \in 1..5 |->
                      [zone_number |-> k, min_bpm |-> fc(k)[1], max_bpm |-> fc(k)[2]]],
         method_used |-> method]

UtilsMethods == {"karvonen", "percentage", "tanaka"}
ZoneMethod == {"karvonen", "max_hr_percentage", "maffetone"}
ZoneEntries ==
    {<<"utils", m>> : m \in UtilsMethods} \cup {<<"server", "karvonen">>}
        \cup {<<"calculator", m>> : m \in ZoneMethod}

InitZones ==
    /\ pc = "ready"
    /\ entry \in ZoneEntries
    /\ age \in ZoneArgAges
    /\ resting_hr \in RestingArgs
    /\ current_hr = 0
    /\ fitness_level = "other"
    /\ health_conditions = <<>>
    /\ hr_zones = NoResult
    /\ current_zone = NoResult
    /\ NoSession
    /\ result = NoResult

UtilsCalculateZones ==
    /\ pc = "ready"
    /\ entry[1] = "utils"
    /\ hr_zones' = calculate_heart_rate_zones(age, resting_hr, entry[2])
    /\ pc' = "done"
    /\ UNCHANGED <<given, calls, current_hr, current_zone, rec_locals, result>>

ServerCalculateZones ==
    /\ pc = "ready"
    /\ entry[1] = "server"
    /\ hr_zones' = server_calculate_heart_rate_zones(age, resting_hr)
    /\ pc' = "done"
    /\ UNCHANGED <<given, calls, current_hr, current_zone, rec_locals, result>>

CalculatorCalculateZones ==
    /\ pc = "ready"
    /\ entry[1] = "calculator"
    /\ hr_zones' = calculate_zones(age, resting_hr, entry[2])
    /\ pc' = "done"
    /\ UNCHANGED <<given, calls, current_hr, current_zone, rec_locals, result>>

NextZones == UtilsCalculateZones \/ ServerCalculateZones \/ CalculatorCalculateZones

SpecZones == InitZones /\ [][NextZones]_vars

ZoneDomain == age \in ZoneMinAge..ZoneMaxAge /\ resting_hr \in MinRestingHr..MaxRestingHr

\* C5: for age in 13..100 and resting HR in 30..120 the table of
\* utils.calculations.calculate_heart_rate_zones (karvonen and percentage
\* branch) and the table printed by the MCP tool is strictly ascending with
\* contiguous bounds, and zone 5 ends at max_hr.
C5_UtilsTableAscending ==
    (pc = "done" /\ entry[1] \in {"utils", "server"} /\ ZoneDomain) =>
        /\ hr_zones.status = "returned"
        /\ \A k \in 1..5 : hr_zones.zones[k].lower < hr_zones.zones[k].upper
        /\ \A k \in 1..4 : hr_zones.zones[k].upper = hr_zones.zones[k + 1].lower
        /\ hr_zones.zones[5].upper = hr_zones.max_hr

\* C6: for age in 13..100 and resting HR in 30..120, with KARVONEN and with
\* MAX_HR_PERCENTAGE, HeartRateCalculator.calculate_zones returns 5 zones
\* numbered 1..5, min_bpm < max_bpm in each, max_bpm of zone k = min_bpm of
\* zone k+1, and max_bpm of zone 5 = max_hr_estimated.
C6_CalculatorTableAscending ==
    (pc = "done" /\ entry[1] = "calculator"
        /\ entry[2] \in {"karvonen", "max_hr_percentage"} /\ ZoneDomain) =>
        /\ hr_zones.status = "returned"
        /\ DOMAIN hr_zones.zones = 1..5
        /\ \A k \in 1..5 : /\ hr_zones.zones[k].zone_number = k
                            /\ hr_zones.zones[k].min_bpm < hr_zones.zones[k].max_bpm
        /\ \A k \in 1..4 : hr_zones.zones[k].max_bpm = hr_zones.zones[k + 1].min_bpm
        /\ hr_zones.zones[5].max_bpm = hr_zones.max_hr_estimated

\* the smallest heart-rate reserve of the domain: 138 - 120 = 18
C6_Witness ==
    /\ pc = "done"
    /\ entry = <<"calculator", "karvonen">>
    /\ age = 100
    /\ resting_hr = 120
    /\ hr_zones.status = "returned"
    /\ hr_zones.hr_reserve = 18
    /\ hr_zones.zones[1].min_bpm = 129
    /\ hr_zones.zones[1].max_bpm = 131

(***************************************************************************)
(* utils.calculations.determine_heart_rate_zone                            *)
(***************************************************************************)
MinClassifiedHr == 0
MaxClassifiedHr == 300

\* a loop that tests lower <= current_hr < upper
RECURSIVE FirstZoneHalfOpen(_, _, _)
FirstZoneHalfOpen(hr, zones, k) ==
    IF k > 5 THEN 0
    ELSE IF zones[k].lower <= hr /\ hr < zones[k].upper THEN k
    ELSE FirstZoneHalfOpen(hr, zones, k + 1)

\* for zone_id, zone_info in zones.items(): the first zone, from index k on,
\* with lower <= current_hr <= upper; 0 when the loop ends without a return
RECURSIVE FirstZone(_, _, _)
FirstZone(hr, zones, k) ==
    IF k > 5 THEN 0
    ELSE IF zones[k].lower <= hr /\ hr <= zones[k].upper THEN k
    ELSE FirstZone(hr, zones, k + 1)

determine_heart_rate_zone(hr, zones) ==
    LET k == FirstZone(hr, zones, 1)
    IN  IF k # 0
        THEN [zone_id |-> zones[k].zone_id, intensity |-> zones[k].intensity,
              current_hr |-> hr]
        ELSE IF hr < zones[1].lower
        THEN [zone_id |-> "below_zone_1", intensity |-> "repouso", current_hr |-> hr]
        ELSE [zone_id |-> "above_zone_5", intensity |-> "perigosa", current_hr |-> hr]

InitClassify ==
    /\ pc = "ready"
    /\ entry \in {<<"classify", m>> : m \in UtilsMethods}
    /\ age \in ZoneMinAge..ZoneMaxAge
    /\ resting_hr \in MinRestingHr..MaxRestingHr
    /\ current_hr = 0
    /\ fitness_level = "other"
    /\ health_conditions = <<>>
    /\ hr_zones = NoResult
    /\ current_zone = NoResult
    /\ NoSession
    /\ result = NoResult

ClassifyCalculateZones ==
    /\ pc = "ready"
    /\ entry[1] = "classify"
    /\ hr_zones' = calculate_heart_rate_zones(age, resting_hr, entry[2])
    /\ pc' = "zones"
    /\ UNCHANGED <<given, calls, current_hr, current_zone, rec_locals, result>>

DetermineHeartRateZone ==
    /\ pc = "zones"
    /\ entry[1] = "classify"
    /\ \E hr \in MinClassifiedHr..MaxClassifiedHr :
          /\ current_hr' = hr
          /\ current_zone' = determine_heart_rate_zone(hr, hr_zones.zones)
    /\ pc' = "done"
    /\ UNCHANGED <<given, calls, hr_zones, rec_locals, result>>

NextClassify == ClassifyCalculateZones \/ DetermineHeartRateZone

SpecClassify == InitClassify /\ [][NextClassify]_vars

ZoneIndex(id) == CHOOSE k \in 1..5 : ZoneIds[k] = id

\* C7: determine_heart_rate_zone is total and unambiguous over the tables for
\* age 13..100, resting HR 30..120 and current_hr 0..300: it returns one of
\* zona_1..zona_5, below_zone_1, above_zone_5; zona_k only if current_hr is in
\* [lower_k, upper_k] and in no lower-numbered zone; below_zone_1 exactly when
\* current_hr < zona_1.lower; above_zone_5 exactly when current_hr > zona_5.upper.
C7_ClassifierTotal ==
    (pc = "done" /\ entry[1] = "classify") =>
        LET z == hr_zones.zones
            id == current_zone.zone_id
        IN  /\ id \in {"zona_1", "zona_2", "zona_3", "zona_4", "zona_5",
                        "below_zone_1", "above_zone_5"}
            /\ id \in {"zona_1", "zona_2", "zona_3", "zona_4", "zona_5"} =>
                   LET k == ZoneIndex(id)
                   IN  /\ z[k].lower <= current_hr /\ current_hr <= z[k].upper
                       /\ \A j \in 1..(k - 1) :
                              ~(z[j].lower <= current_hr /\ current_hr <= z[j].upper)
            /\ (id = "below_zone_1") <=> (current_hr < z[1].lower)
            /\ (id = "above_zone_5") <=> (current_hr > z[5].upper)

\* current_hr on the bound shared by zona_2 and zona_3 of a non-degenerate table
C7_Witness ==
    /\ pc = "done"
    /\ entry = <<"classify", "karvonen">>
    /\ hr_zones.zones[2].lower < hr_zones.zones[2].upper
    /\ hr_zones.zones[3].lower < hr_zones.zones[3].upper
    /\ current_hr = hr_zones.zones[2].upper
    /\ current_hr = hr_zones.zones[3].lower
    /\ current_zone.zone_id = "zona_2"

(***************************************************************************)
(* tools/exercise_manager.py and tools/heart_rate_manager.py.              *)
(*                                                                         *)
(* The managers read the stored profile and the exercises table through    *)
(* user_repo and exercise_repo.  A row of the table is a record with the    *)
(* fields _select_exercises and the filters read (models/exercise.py:       *)
(* type, difficulty_level, equipment_needed, contraindications,            *)
(* muscle_groups, duration_range).  Each await on a repository is a step    *)
(* of its own; the code between two awaits runs in one step.  A repository *)
(* call may raise, and get_user_by_id may return None.                      *)
(* Texts (names, instructions, messages) and estimated_calories are left   *)
(* out of the returned records: no branch reads them.                      *)
(***************************************************************************)
MaxPool == 2

\* the value of a column that was left NULL: equipment_needed is a nullable
\* ARRAY(String) without default
Null == {"NULL"}

\* rows the exercises table may hold: the first two are rows of the initial
\* data, the others stand for rows added through the repository
Catalogue == <<
    [id |-> "walk_light", type |-> "cardio", difficulty_level |-> "low",
     equipment_needed |-> {}, contraindications |-> {},
     muscle_groups |-> <<"pernas", "core">>, duration_range |-> <<10, 60>>],
    [id |-> "squat_bodyweight", type |-> "strength", difficulty_level |-> "moderate",
     equipment_needed |-> {}, contraindications |-> {"lesoes no joelho", "problemas na lombar"},
     muscle_groups |-> <<"quadriceps", "gluteos", "core">>, duration_range |-> <<5, 20>>],
    [id |-> "glute_bridge", type |-> "strength", difficulty_level |-> "low",
     equipment_needed |-> Null, contraindications |-> {"arthritis"},
     muscle_groups |-> <<"gluteos", "core">>, duration_range |-> <<1, 5>>],
    [id |-> "interval_run", type |-> "cardio", difficulty_level |-> "moderate",
     equipment_needed |-> {}, contraindications |-> {"heart_disease"},
     muscle_groups |-> <<"legs", "core">>, duration_range |-> <<5, 20>>],
    [id |-> "dumbbell_press", type |-> "strength", difficulty_level |-> "moderate",
     equipment_needed |-> {"dumbbells"}, contraindications |-> {},
     muscle_groups |-> <<"peito">>, duration_range |-> <<8, 15>>]
>>

Range(f) == {f[i] : i \in DOMAIN f}
Injective(f) == \A i, j \in DOMAIN f : f[i] = f[j] => i = j
Pools ==
    UNION {{[i \in 1..n |-> Catalogue[ix[i]]] :
                ix \in {f \in [1..n -> DOMAIN Catalogue] : Injective(f)}} : n \in 0..MaxPool}

RecAges == {20, 70}
RecRestingHrs == {0, 50}
RecCurrentHrs == {60, 107, 142, 175, 195}
RecConditionLists == {<<>>, <<"heart_disease">>, <<"arthritis", "heart_disease">>}
PreferenceLists == {<<>>, <<"cardio">>}
SessionDurations == {10, 30, 45}
WorkoutTypes == {"mixed", "cardio", "strength", "flexibility"}
EquipmentArgs == {<<"none">>, <<>>, <<"dumbbells">>}

\* _estimate_resting_hr of both managers
estimate_resting_hr(a, lvl) ==
    LET base == CASE lvl = "beginner" -> 75
                  [] lvl = "intermediate" -> 65
                  [] lvl = "advanced" -> 55
                  [] OTHER -> 70
    IN  IF a > 60 THEN base + 8
        ELSE IF a > 40 THEN base + 5
        ELSE IF a < 25 THEN base - 5
        ELSE base

\* user.resting_heart_rate or self._estimate_resting_hr(...)
resting_or_estimate(rest, a, lvl) == IF rest # 0 THEN rest ELSE estimate_resting_hr(a, lvl)

\* ExerciseRepository.get_exercises_by_equipment over the rows of the table
get_exercises_by_equipment(equipment_list, rows) ==
    LET NoEquipment(ex) == ex.equipment_needed = {} \/ ex.equipment_needed = Null
        \* equipment_needed <@ equipment_list: NULL for a NULL column, so the
        \* row is not selected
        Contained(ex) == /\ ex.equipment_needed # Null
                         /\ ex.equipment_needed \subseteq Range(equipment_list)
    IN  IF equipment_list = <<>> \/ equipment_list = <<"none">>
        THEN SelectSeq(rows, NoEquipment)
        ELSE SelectSeq(rows, Contained)

is_suitable_difficulty(ex, lvl) ==
    ex.difficulty_level \in
        (CASE lvl = "beginner" -> {"very_low", "low"}
           [] lvl = "intermediate" -> {"low", "moderate"}
           [] lvl = "advanced" -> {"moderate", "high", "very_high"}
           [] OTHER -> {"low", "moderate"})

exercise_types(wt) ==
    CASE wt = "mixed" -> <<"cardio", "strength">>
      [] wt = "cardio" -> <<"cardio">>
      [] wt = "strength" -> <<"strength">>
      [] OTHER -> <<"cardio", "strength">>

\* cardio_ratio, in tenths
cardio_ratio(wt) ==
    CASE wt = "mixed" -> 6 [] wt = "cardio" -> 10 [] wt = "strength" -> 0 [] OTHER -> 5

\* a score that counts the important muscle groups once
ScoreMuscleOnce(ex, prefs) ==
    (IF \E i \in DOMAIN prefs : prefs[i] = ex.type THEN 10 ELSE 0)
    + (IF \E i \in DOMAIN ex.muscle_groups : ex.muscle_groups[i] \in {"core", "legs"}
       THEN 5 ELSE 0)

\* lines 308-320: the score of a candidate
Score(ex, prefs) ==
    (IF \E i \in DOMAIN prefs : prefs[i] = ex.type THEN 10 ELSE 0)
    + 5 * Cardinality({i \in DOMAIN ex.muscle_groups : ex.muscle_groups[i] \in {"core", "legs"}})

\* a sort that is not stable: the order of equal scores depends on the time
RECURSIVE InsertByScoreUnstable(_, _, _)
InsertByScoreUnstable(ex, sorted, prefs) ==
    IF sorted = <<>> THEN <<ex>>
    ELSE IF Score(Head(sorted), prefs) > Score(ex, prefs)
            \/ (Score(Head(sorted), prefs) = Score(ex, prefs) /\ now % 2 = 0)
    THEN <<Head(sorted)>> \o InsertByScoreUnstable(ex, Tail(sorted), prefs)
    ELSE <<ex>> \o sorted

\* scored_exercises.sort(key=score, reverse=True): stable, equal scores keep
\* their order
RECURSIVE InsertByScore(_, _, _)
InsertByScore(ex, sorted, prefs) ==
    IF sorted = <<>> THEN <<ex>>
    ELSE IF Score(Head(sorted), prefs) >= Score(ex, prefs)
    THEN <<Head(sorted)>> \o InsertByScore(ex, Tail(sorted), prefs)
    ELSE <<ex>> \o sorted

RECURSIVE SortByScore(_, _, _)
SortByScore(exercises, sorted, prefs) ==
    IF exercises = <<>> THEN sorted
    ELSE SortByScore(Tail(exercises), InsertByScore(Head(exercises), sorted, prefs), prefs)

Min3(a, b, c) == IF a <= b /\ a <= c THEN a ELSE IF b <= c THEN b ELSE c

\* a loop that leaves remaining_time out of the recommended duration
RECURSIVE SelectLoopUnbounded(_, _, _, _, _)
SelectLoopUnbounded(scored, total_duration, used_duration, intensity, selected) ==
    IF scored = <<>> \/ used_duration >= total_duration THEN selected
    ELSE LET exercise == Head(scored)
             min_duration == exercise.duration_range[1]
             max_duration == exercise.duration_range[2]
             recommended_duration ==
                 IF intensity = "alta"
                 THEN Min3(min_duration, min_duration, 15)
                 ELSE Min3(max_duration, max_duration, 30)
         IN  IF recommended_duration >= min_duration
             THEN SelectLoopUnbounded(Tail(scored), total_duration,
                                      used_duration + recommended_duration, intensity,
                                      Append(selected,
                                             [exercise_id |-> exercise.id,
                                              type |-> exercise.type,
                                              recommended_duration |-> recommended_duration]))
             ELSE SelectLoopUnbounded(Tail(scored), total_duration, used_duration,
                                      intensity, selected)

\* lines 325-356: the selection loop
RECURSIVE SelectLoop(_, _, _, _, _)
SelectLoop(scored, total_duration, used_duration, intensity, selected) ==
    IF scored = <<>> \/ used_duration >= total_duration THEN selected
    ELSE LET exercise == Head(scored)
             min_duration == exercise.duration_range[1]
             max_duration == exercise.duration_range[2]
             remaining_time == total_duration - used_duration
             recommended_duration ==
                 IF intensity = "alta"
                 THEN Min3(min_duration, remaining_time, 15)
                 ELSE Min3(max_duration, remaining_time, 30)
         IN  IF recommended_duration >= min_duration
             THEN SelectLoop(Tail(scored), total_duration,
                             used_duration + recommended_duration, intensity,
                             Append(selected,
                                    [exercise_id |-> exercise.id,
                                     type |-> exercise.type,
                                     recommended_duration |-> recommended_duration]))
             ELSE SelectLoop(Tail(scored), total_duration, used_duration, intensity,
                             selected)

select_exercises(exercises, total_duration, prefs, zone) ==
    SelectLoop(SortByScore(exercises, <<>>, prefs), total_duration, 0, zone.intensity, <<>>)

RECURSIVE SumDurations(_)
SumDurations(recs) ==
    IF recs = <<>> THEN 0 ELSE Head(recs).recommended_duration + SumDurations(Tail(recs))

\* lines 246-273: the body of the loop over exercise_types after the two
\* queries returned; yields the picks of this type
suitable_exercises(ex_type, lvl, equipment_list, rows) ==
    LET Suitable(ex) == ex.type = ex_type /\ is_suitable_difficulty(ex, lvl)
    IN  SelectSeq(get_exercises_by_equipment(equipment_list, rows), Suitable)

type_duration(ex_type, wt, remaining, duration) ==
    IF wt # "mixed" THEN remaining
    ELSE IF ex_type = "cardio" THEN (remaining * cardio_ratio(wt)) \div 10
    ELSE remaining - ((duration * cardio_ratio(wt)) \div 10)

picks_for_type(ex_type, wt, remaining, duration, lvl, prefs, zone, equipment_list, rows) ==
    LET suitable == suitable_exercises(ex_type, lvl, equipment_list, rows)
    IN  IF suitable = <<>> THEN <<>>
        ELSE select_exercises(suitable,
                              type_duration(ex_type, wt, remaining, duration), prefs, zone)

\* _get_safety_notes, by tag:
\*   "monitor", "stop_on_pain", "hydrate"   the three notes of every plan
\*   "high_intensity", "recover"           zona_4 and zona_5
\*   a condition's name                     diabetes, hypertension, heart_disease
\*   "balance", "longer_warmup"            age > 65
RECURSIVE condition_notes(_)
condition_notes(conds) ==
    IF conds = <<>> THEN <<>>
    ELSE (IF Head(conds) \in {"diabetes", "hypertension", "heart_disease"}
          THEN <<Head(conds)>> ELSE <<>>) \o condition_notes(Tail(conds))

get_safety_notes(a, conds, zone) ==
    <<"monitor", "stop_on_pain", "hydrate">>
        \o (IF zone.zone_id \in {"zona_4", "zona_5"}
             THEN <<"high_intensity", "recover">> ELSE <<>>)
        \o condition_notes(conds)
        \o (IF a > 65 THEN <<"balance", "longer_warmup">> ELSE <<>>)

InitRec ==
    /\ pc = "ready"
    /\ age \in RecAges
    /\ resting_hr \in RecRestingHrs
    /\ fitness_level \in FitnessLevel
    /\ health_conditions \in RecConditionLists
    /\ preferences \in PreferenceLists
    /\ current_hr \in RecCurrentHrs
    /\ \/ /\ entry = "recommend_exercises"
          /\ session_duration \in SessionDurations
          /\ workout_type \in WorkoutTypes
          /\ available_equipment \in EquipmentArgs
          /\ pool \in Pools
       \/ /\ entry = "analyze_current_hr"
          /\ session_duration = 0
          /\ workout_type = "none"
          /\ available_equipment = <<>>
          /\ pool = <<>>
    /\ hr_zones = NoResult
    /\ current_zone = NoResult
    /\ type_idx = 0
    /\ remaining_duration = 0
    /\ recommendations = <<>>
    /\ queries = <<>>
    /\ result = NoResult
    /\ now = 0
    /\ previous = NoResult
    /\ tasks = <<>>
    /\ frames = <<>>
    /\ args = <<>>

\* what a repository call can raise: the exception's class and its str()
DependencyErrors == {[type |-> "OperationalError", text |-> "connection refused"],
                     [type |-> "TimeoutError", text |-> ""]}
\* except Exception as e: the handler returns a dict built from str(e)
except_Exception(e) == [status |-> "error", message |-> <<"Erro interno: ", e.text>>]

Return(r) ==
    /\ result' = r
    /\ pc' = "done"

\* await user_repo.get_user_by_id raises: except Exception -> "Erro interno"
RecGetUserRaises ==
    /\ pc = "ready" /\ entry = "recommend_exercises"
    /\ queries' = Append(queries, "get_user_by_id")
    /\ \E e \in DependencyErrors : Return(except_Exception(e))
    /\ UNCHANGED <<given, calls, current_hr, hr_zones, current_zone, type_idx,
                   remaining_duration, recommendations>>

\* if not user
RecUserNotFound ==
    /\ pc = "ready" /\ entry = "recommend_exercises"
    /\ queries' = Append(queries, "get_user_by_id")
    /\ Return([status |-> "error", message |-> <<"nao encontrado">>])
    /\ UNCHANGED <<given, calls, current_hr, hr_zones, current_zone, type_idx,
                   remaining_duration, recommendations>>

\* lines 39-53: the safety check says unsafe
RecUnsafe ==
    /\ pc = "ready" /\ entry = "recommend_exercises"
    /\ LET safety_check == check_heart_rate_safety(current_hr, age, fitness_level,
                                                    health_conditions)
       IN  /\ ~safety_check.safe
           /\ Return([status |-> "warning",
                       message |-> <<"FC fora da zona segura">>,
                       safety_alerts |-> safety_check.alerts,
                       recommendations |-> <<"Reduza a intensidade",
                                             "Descanse antes de continuar">>])
    /\ queries' = Append(queries, "get_user_by_id")
    /\ UNCHANGED <<given, calls, current_hr, hr_zones, current_zone, type_idx,
                   remaining_duration, recommendations>>

\* lines 55-67 and 225-244: zones, current zone, then the first query is awaited
RecBegin ==
    /\ pc = "ready" /\ entry = "recommend_exercises"
    /\ check_heart_rate_safety(current_hr, age, fitness_level, health_conditions).safe
    /\ LET zones_data == calculate_heart_rate_zones(
                             age, resting_or_estimate(resting_hr, age, fitness_level),
                             "karvonen")
       IN  /\ hr_zones' = zones_data
           /\ current_zone' = determine_heart_rate_zone(current_hr, zones_data.zones)
    /\ queries' = Append(queries, "get_user_by_id")
    /\ type_idx' = 1
    /\ remaining_duration' = session_duration
    /\ recommendations' = <<>>
    /\ pc' = "get_exercises_by_type"
    /\ UNCHANGED <<given, calls, current_hr, result>>

\* await exercise_repo.get_exercises_by_type(ex_type): the rows are not used
RecGetByType ==
    /\ pc = "get_exercises_by_type"
    /\ queries' = Append(queries, "get_exercises_by_type")
    /\ pc' = "get_exercises_by_equipment"
    /\ UNCHANGED <<given, calls, current_hr, hr_zones, current_zone, type_idx,
                   remaining_duration, recommendations, result>>

RecGetByTypeRaises ==
    /\ pc = "get_exercises_by_type"
    /\ queries' = Append(queries, "get_exercises_by_type")
    /\ \E e \in DependencyErrors : Return(except_Exception(e))
    /\ UNCHANGED <<given, calls, current_hr, hr_zones, current_zone, type_idx,
                   remaining_duration, recommendations>>

\* await exercise_repo.get_exercises_by_equipment(...), then lines 249-273 and
\* either the next ex_type or the return of lines 69-79
RecSelect ==
    /\ pc = "get_exercises_by_equipment"
    /\ queries' = Append(queries, "get_exercises_by_equipment")
    /\ LET types == exercise_types(workout_type)
           selected_exercises ==
               picks_for_type(types[type_idx], workout_type, remaining_duration,
                              session_duration, fitness_level, preferences,
                              current_zone, available_equipment, pool)
           recs == recommendations \o selected_exercises
       IN  /\ recommendations' = recs
           /\ remaining_duration' = remaining_duration - SumDurations(selected_exercises)
           /\ IF type_idx < Len(types)
              THEN /\ type_idx' = type_idx + 1
                   /\ pc' = "get_exercises_by_type"
                   /\ UNCHANGED result
              ELSE /\ type_idx' = type_idx
                   /\ Return([status |-> "success",
                               current_hr |-> current_hr,
                               current_zone |-> current_zone.zone_id,
                               session_duration |-> session_duration,
                               workout_type |-> workout_type,
                               recommendations |-> recs,
                               safety_notes |-> get_safety_notes(age, health_conditions,
                                                                 current_zone),
                               generated_at |-> now])
    /\ UNCHANGED <<given, calls, current_hr, hr_zones, current_zone>>

RecGetByEquipmentRaises ==
    /\ pc = "get_exercises_by_equipment"
    /\ queries' = Append(queries, "get_exercises_by_equipment")
    /\ \E e \in DependencyErrors : Return(except_Exception(e))
    /\ UNCHANGED <<given, calls, current_hr, hr_zones, current_zone, type_idx,
                   remaining_duration, recommendations>>

\* HeartRateManager.analyze_current_hr
AnalyzeGetUserRaises ==
    /\ pc = "ready" /\ entry = "analyze_current_hr"
    /\ queries' = Append(queries, "get_user_by_id")
    /\ \E e \in DependencyErrors : Return(except_Exception(e))
    /\ UNCHANGED <<given, calls, current_hr, hr_zones, current_zone, type_idx,
                   remaining_duration, recommendations>>

AnalyzeUserNotFound ==
    /\ pc = "ready" /\ entry = "analyze_current_hr"
    /\ queries' = Append(queries, "get_user_by_id")
    /\ Return([status |-> "error", message |-> <<"nao encontrado">>])
    /\ UNCHANGED <<given, calls, current_hr, hr_zones, current_zone, type_idx,
                   remaining_duration, recommendations>>

\* lines 66-94: the safety check is called without the profile's conditions
AnalyzeCurrentHr ==
    /\ pc = "ready" /\ entry = "analyze_current_hr"
    /\ queries' = Append(queries, "get_user_by_id")
    /\ LET zones_data == calculate_heart_rate_zones(
                             age, resting_or_estimate(resting_hr, age, fitness_level),
                             "karvonen")
           zone == determine_heart_rate_zone(current_hr, zones_data.zones)
           safety_check == check_heart_rate_safety(current_hr, age, fitness_level, <<>>)
       IN  /\ hr_zones' = zones_data
           /\ current_zone' = zone
           /\ Return([status |-> "success",
                       current_hr |-> current_hr,
                       current_zone |-> zone.zone_id,
                       safety_status |-> IF safety_check.safe THEN "safe" ELSE "warning",
                       safety_alerts |-> safety_check.alerts])
    /\ UNCHANGED <<given, calls, current_hr, type_idx, remaining_duration, recommendations>>

NextRec ==
    \/ RecGetUserRaises
    \/ RecUserNotFound
    \/ RecUnsafe
    \/ RecBegin
    \/ RecGetByType
    \/ RecGetByTypeRaises
    \/ RecSelect
    \/ RecGetByEquipmentRaises
    \/ AnalyzeGetUserRaises
    \/ AnalyzeUserNotFound
    \/ AnalyzeCurrentHr

SpecRec == InitRec /\ [][NextRec]_vars

RecReturned == pc = "done" /\ entry = "recommend_exercises"
Max2(a, b) == IF a >= b THEN a ELSE b
ExerciseById(id) == CHOOSE ex \in Range(Catalogue) : ex.id = id

\* C3: the recommended_duration of the exercises returned by
\* recommend_exercises sum to at most D - warmup - cooldown, with
\* warmup = max(5, D/6) and cooldown = max(5, D/8).
C3_MainBudgetRespected ==
    (RecReturned /\ result.status = "success") =>
        SumDurations(result.recommendations) <=
            session_duration - Max2(5, session_duration \div 6)
                             - Max2(5, session_duration \div 8)

\* C4: no exercise returned by recommend_exercises has a contraindication
\* that is one of the user's health conditions.
C4_NoContraindicatedExercise ==
    (RecReturned /\ result.status = "success") =>
        \A i \in DOMAIN result.recommendations :
            ExerciseById(result.recommendations[i].exercise_id).contraindications
                \cap Range(health_conditions) = {}

\* current_hr is 71 percent of max_hr = 220 - age (71 <= percent < 72)
At71Percent ==
    /\ 71 * (220 - age) <= 100 * current_hr
    /\ 100 * current_hr < 72 * (220 - age)

\* C10: for a stored profile that lists heart_disease, at a current HR of 71
\* percent of max HR, analyze_current_hr reports safety_status "warning" with
\* the heart-disease alert in safety_alerts, and recommend_exercises reports
\* the alert in safety_alerts.
C10_HeartDiseaseAlertAt71 ==
    (pc = "done" /\ result.status \in {"success", "warning"} /\ At71Percent
        /\ InSeq("heart_disease", health_conditions)) =>
        /\ entry = "analyze_current_hr" =>
               /\ result.safety_status = "warning"
               /\ InSeq("heart_disease", result.safety_alerts)
        /\ entry = "recommend_exercises" =>
               /\ result.status = "warning"
               /\ InSeq("heart_disease", result.safety_alerts)

\* the call got the profile: it did not end at get_user_by_id
ProfileLoaded == ~(result.status = "error" /\ queries = <<"get_user_by_id">>)
VerdictOfCall == check_heart_rate_safety(current_hr, age, fitness_level, health_conditions)
IsExerciseRecord(x) == DOMAIN x = {"exercise_id", "type", "recommended_duration"}

\* C11: when the safety verdict for the current HR is unsafe, recommend_exercises
\* still returns a session plan (the fields session_duration, workout_type and
\* recommendations of a plan), not an error, and the plan holds no main exercise.
C11_UnsafeReturnsWarmupOnlyPlan ==
    (RecReturned /\ ProfileLoaded /\ ~VerdictOfCall.safe) =>
        /\ result.status # "error"
        /\ {"session_duration", "workout_type", "recommendations"} \subseteq DOMAIN result
        /\ \A i \in DOMAIN result.recommendations :
               ~IsExerciseRecord(result.recommendations[i])

\* the call came back without a repository call raising
NoDependencyError == result.status # "error"
\* the candidates of a sub-type that pass the equipment, type and difficulty filters
Eligible(ex_type) == suitable_exercises(ex_type, fitness_level, available_equipment, pool)
\* the picks of one sub-type in a returned plan
RECURSIVE PicksOfType(_, _)
PicksOfType(recs, ex_type) ==
    IF recs = <<>> THEN <<>>
    ELSE (IF Head(recs).type = ex_type THEN <<Head(recs)>> ELSE <<>>)
             \o PicksOfType(Tail(recs), ex_type)
\* the share of a sub-type in a mixed session of d minutes
MixedShare(ex_type, d) == IF ex_type = "cardio" THEN (6 * d) \div 10 ELSE d - ((6 * d) \div 10)

\* C12: when the filters leave no candidate for a required sub-type,
\* recommend_exercises returns a plan (status success) in which that sub-type
\* is empty, the other sub-type of a mixed session stays within its own share,
\* and the plan carries a degradation reason.
C12_DegradedPlanExplained ==
    (RecReturned /\ ProfileLoaded /\ VerdictOfCall.safe /\ NoDependencyError) =>
        \A k \in DOMAIN exercise_types(workout_type) :
            LET ex_type == exercise_types(workout_type)[k]
            IN  Eligible(ex_type) = <<>> =>
                    /\ result.status = "success"
                    /\ PicksOfType(result.recommendations, ex_type) = <<>>
                    /\ workout_type = "mixed" =>
                           \A other \in {"cardio", "strength"} \ {ex_type} :
                               SumDurations(PicksOfType(result.recommendations, other))
                                   <= MixedShare(other, session_duration)
                    /\ "degradation_reason" \in DOMAIN result

(***************************************************************************)
(* Two calls of recommend_exercises, one after the other, with the same    *)
(* arguments, profile and exercises table.  Time passes between them.      *)
(***************************************************************************)
MaxClock == 1

RecCallAgain ==
    /\ pc = "done" /\ entry = "recommend_exercises"
    /\ previous = NoResult
    /\ previous' = result
    /\ \E t \in now..MaxClock : now' = t
    /\ result' = NoResult
    /\ pc' = "ready"
    /\ hr_zones' = NoResult
    /\ current_zone' = NoResult
    /\ type_idx' = 0
    /\ remaining_duration' = 0
    /\ recommendations' = <<>>
    /\ queries' = <<>>
    /\ UNCHANGED <<given, current_hr, tasks, frames>>

InitTwice ==
    /\ InitRec
    /\ age = 20
    /\ resting_hr = 0
    /\ preferences = <<>>
    /\ health_conditions = <<>>
    /\ session_duration \in {0, 10}    \* 0: analyze_current_hr takes no duration

NextTwice == NextRec \/ RecCallAgain

SpecTwice == InitTwice /\ [][NextTwice]_vars

SecondReturned == RecReturned /\ previous # NoResult
\* a result without its time stamp
Undated(r) == IF "generated_at" \in DOMAIN r THEN [r EXCEPT !.generated_at = 0] ELSE r

C14_ZoneInputsValidated ==
    (pc = "done" /\ entry[1] \in {"utils", "server", "calculator"} /\ ~ZoneDomain) =>
        /\ hr_zones.status # "returned"
        /\ "zones" \notin DOMAIN hr_zones

\* the call is about to run lines 249-273 for the sub-type at type_idx
AtSelection == pc = "get_exercises_by_equipment" /\ entry = "recommend_exercises"
TypeOfStep == exercise_types(workout_type)[type_idx]
\* type_duration as line 260 or 262 computes it for that sub-type
BudgetOfStep == type_duration(TypeOfStep, workout_type, remaining_duration, session_duration)

\* the budgets as the claims state them
ClaimWarmup(d) == Max2(5, d \div 6)
ClaimCooldown(d) == Max2(5, d \div 8)
ClaimMain(d) == d - ClaimWarmup(d) - ClaimCooldown(d)
ClaimCardioBudget(d) == (6 * ClaimMain(d)) \div 10
ClaimStrengthBudget(d) == ClaimMain(d) - ClaimCardioBudget(d)

\* C15: session generation reserves warm-up = max(5, D/6) and cool-down =
\* max(5, D/8) and gives the main exercises D - warm-up - cool-down: the first
\* sub-type selected gets the whole main budget, or its 60 percent when the
\* workout type is mixed; for D = 45 and mixed the cardio budget is 19 and,
\* after a cardio selection that took nothing, the strength budget is 14.
C15_WarmupCooldownReserved ==
    (AtSelection /\ Eligible(TypeOfStep) # <<>>) =>
        /\ type_idx = 1 =>
               BudgetOfStep = IF workout_type = "mixed"
                              THEN ClaimCardioBudget(session_duration)
                              ELSE ClaimMain(session_duration)
        /\ (session_duration = 45 /\ workout_type = "mixed") =>
               /\ ClaimWarmup(45) = 7 /\ ClaimCooldown(45) = 5 /\ ClaimMain(45) = 33
               /\ type_idx = 1 => BudgetOfStep = 19
               /\ (type_idx = 2 /\ recommendations = <<>>) => BudgetOfStep = 14

\* C16: in a mixed session the strength budget is the strength share (40
\* percent) of the main budget whatever the cardio selection consumed, also
\* when cardio filled its whole budget or had no candidate, and the result is
\* the cardio picks followed by the strength picks.
C16_StrengthBudgetIndependent ==
    /\ (AtSelection /\ workout_type = "mixed" /\ type_idx = 2
            /\ Eligible("strength") # <<>>) =>
           BudgetOfStep = MixedShare("strength", session_duration)
    /\ (RecReturned /\ result.status = "success" /\ workout_type = "mixed") =>
           result.recommendations =
               PicksOfType(result.recommendations, "cardio")
                   \o PicksOfType(result.recommendations, "strength")

\* the selection as C17 states it: duration min(max duration, remaining budget,
\* cap), rejected below the minimum duration, until the budget is used up or
\* the candidates run out
RECURSIVE ClaimSelectLoop(_, _, _, _)
ClaimSelectLoop(scored, budget, cap, selected) ==
    IF scored = <<>> \/ budget <= 0 THEN selected
    ELSE LET c == Head(scored)
             d == Min3(c.duration_range[2], budget, cap)
         IN  IF d < c.duration_range[1]
             THEN ClaimSelectLoop(Tail(scored), budget, cap, selected)
             ELSE ClaimSelectLoop(Tail(scored), budget - d, cap,
                                  Append(selected, [exercise_id |-> c.id, type |-> c.type,
                                                    recommended_duration |-> d]))

\* C17: _select_exercises gives each candidate considered while budget remains
\* min(max duration, remaining budget, cap), cap = 15 when the current zone's
\* intensity is high and 30 otherwise, rejects it when that is below its
\* minimum duration and selects it with exactly that duration otherwise
\* (checked on the sessions of one sub-type, whose budget is session_duration).
C17_PerCandidateDuration ==
    (RecReturned /\ result.status = "success" /\ workout_type \in {"cardio", "strength"}) =>
        result.recommendations =
            ClaimSelectLoop(SortByScore(Eligible(workout_type), <<>>, preferences),
                            session_duration,
                            IF current_zone.intensity = "alta" THEN 15 ELSE 30,
                            <<>>)

\* a row that needs no equipment: an empty list, or the column left NULL
NeedsNoEquipment(ex) == ex.equipment_needed = {} \/ ex.equipment_needed = Null
ClaimDifficultyBand(lvl) ==
    CASE lvl = "beginner" -> {"very_low", "low"}
      [] lvl = "intermediate" -> {"low", "moderate"}
      [] lvl = "advanced" -> {"moderate", "high", "very_high"}

\* C18: every exercise returned by recommend_exercises needs only equipment of
\* the caller's available equipment and has a difficulty of the band of the
\* user's fitness level; an exercise that needs no equipment passes the
\* equipment filter for every available-equipment list, also a non-empty one.
C18_EquipmentAndDifficultyFilter ==
    /\ (RecReturned /\ result.status = "success") =>
           \A i \in DOMAIN result.recommendations :
               LET ex == ExerciseById(result.recommendations[i].exercise_id)
               IN  /\ NeedsNoEquipment(ex)
                      \/ ex.equipment_needed \subseteq Range(available_equipment)
                   /\ ex.difficulty_level \in ClaimDifficultyBand(fitness_level)
    /\ (RecReturned /\ result.status = "success") =>
           \A i \in DOMAIN pool :
               NeedsNoEquipment(pool[i]) =>
                   InSeq(pool[i], get_exercises_by_equipment(available_equipment, pool))

\* the score as C19 states it
RECURSIVE ClaimMuscleScore(_)
ClaimMuscleScore(groups) ==
    IF groups = <<>> THEN 0
    ELSE (IF Head(groups) = "core" \/ Head(groups) = "legs" THEN 5 ELSE 0)
             + ClaimMuscleScore(Tail(groups))
ClaimScore(ex) == (IF InSeq(ex.type, preferences) THEN 10 ELSE 0)
                      + ClaimMuscleScore(ex.muscle_groups)
PoolPos(ex) == CHOOSE i \in DOMAIN pool : pool[i] = ex
\* a comes before b in the order of consumption C19 states
ClaimBefore(a, b) ==
    \/ ClaimScore(a) > ClaimScore(b)
    \/ ClaimScore(a) = ClaimScore(b) /\ PoolPos(a) < PoolPos(b)
ClaimOrdered(exs) == \A i, j \in DOMAIN exs : i < j => ClaimBefore(exs[i], exs[j])

\* C19: _select_exercises scores a candidate 10 if its type is among the user's
\* preferences plus 5 for each of its muscle groups that is core or legs, and
\* consumes the candidates by descending score, equal scores in the order of
\* the input pool: the sorted list the loop runs over, and the picks of each
\* sub-type in the returned plan, are in that order.
C19_ScoreOrderStable ==
    /\ AtSelection =>
           LET scored == SortByScore(Eligible(TypeOfStep), <<>>, preferences)
           IN  /\ \A i \in DOMAIN scored :
                      Score(scored[i], preferences) = ClaimScore(scored[i])
               /\ Range(scored) = Range(Eligible(TypeOfStep))
               /\ Len(scored) = Len(Eligible(TypeOfStep))
               /\ ClaimOrdered(scored)
    /\ (RecReturned /\ result.status = "success") =>
           \A t \in {"cardio", "strength"} :
               LET picks == PicksOfType(result.recommendations, t)
               IN  ClaimOrdered([i \in DOMAIN picks |-> ExerciseById(picks[i].exercise_id)])

\* a plan whose second pool row, with the higher score, was consumed first
C19_Witness ==
    /\ RecReturned /\ result.status = "success"
    /\ Len(pool) = 2
    /\ ClaimScore(pool[1]) < ClaimScore(pool[2])
    /\ Len(result.recommendations) = 2
    /\ result.recommendations[1].exercise_id = pool[2].id
    /\ result.recommendations[2].exercise_id = pool[1].id

\* the generic alerts: above the safe limit, and the low-HR note
GenericAlerts == {"above_safe_limit", "low_hr"}

\* C20: in the alerts returned by check_heart_rate_safety the condition-specific
\* alerts and the critical alert come first and the generic alerts last: no
\* generic alert stands before a condition-specific or the critical alert.
C20_GenericAlertsLast ==
    SafetyReturned =>
        \A i, j \in DOMAIN result.alerts :
            (i < j /\ result.alerts[i] \in GenericAlerts) => result.alerts[j] \in GenericAlerts

\* the interval as C21 states it
ClaimNextCheck(r) ==
    CASE r = "critical" -> 2 [] r = "high" -> 5 [] r = "moderate" -> 10 [] r = "low" -> 15

\* C21: next_check_minutes of check_heart_rate_safety is 2 for a critical, 5
\* for a high, 10 for a moderate and 15 for a low verdict, and it is 2 for
\* every input with current_hr > 0.95 * max_hr, whichever conditions are listed.
C21_NextCheckByRisk ==
    SafetyReturned =>
        /\ result.next_check_minutes = ClaimNextCheck(result.risk_level)
        /\ current_hr * 100 > 95 * (220 - age) => result.next_check_minutes = 2

\* a condition of the list whose threshold current_hr exceeds
BreachedCondition ==
    \E i \in DOMAIN health_conditions :
        /\ health_conditions[i] \in {"heart_disease", "hypertension", "diabetes", "asthma"}
        /\ 100 * current_hr > ClaimThresholdPct(health_conditions[i]) * (220 - age)

\* C22: check_heart_rate_safety appends the low-HR alert exactly when
\* current_hr < 50, and the alert never makes the verdict unsafe: with no
\* breached condition threshold a current_hr below 50 gives safe = TRUE and
\* risk level low.
C22_LowHrAlertInformational ==
    SafetyReturned =>
        /\ InSeq("low_hr", result.alerts) <=> current_hr < 50
        /\ (current_hr < 50 /\ ~BreachedCondition) =>
               result.safe = TRUE /\ result.risk_level = "low"

\* the oldest profile at 49 bpm: 49 percent of max_hr = 100
C22_Witness ==
    /\ SafetyReturned
    /\ current_hr = 49
    /\ age = 120
    /\ health_conditions = <<"heart_disease">>
    /\ result.alerts = <<"low_hr">>
    /\ result.safe = TRUE
    /\ result.risk_level = "low"

Abs(x) == IF x >= 0 THEN x ELSE -x
\* m is num / den rounded to the nearest integer (either way on a half)
ClaimRounds(m, num, den) == 2 * Abs(den * m - num) <= den
\* b is the integer part or the rounding of resting HR + reserve * pct / 100
ClaimKarvonenBound(b, rest, reserve, pct) == Abs(100 * b - (100 * rest + reserve * pct)) < 100

\* C23: zone computation honours the max-HR formula and the Karvonen method
\* together: with tanaka, max HR = round(208 - 0.7 * age) for age 13..100,
\* reserve = max HR - resting HR and every zone bound is resting HR + reserve *
\* percent; age 28 with resting HR 65 gives max HR 188, reserve 123 and zone 1
\* = [126, 140]; classic gives 220 - age and nes round(211 - 0.64 * age).
C23_TanakaKarvonenZones ==
    /\ (pc = "done" /\ entry = <<"calculator", "karvonen">> /\ ZoneDomain) =>
           /\ ClaimRounds(hr_zones.max_hr_estimated, 2080 - 7 * age, 10)
           /\ hr_zones.hr_reserve = hr_zones.max_hr_estimated - resting_hr
           /\ \A k \in 1..5 :
                  /\ ClaimKarvonenBound(hr_zones.zones[k].min_bpm, resting_hr,
                                        hr_zones.hr_reserve, ZoneLowPct[k])
                  /\ ClaimKarvonenBound(hr_zones.zones[k].max_bpm, resting_hr,
                                        hr_zones.hr_reserve, ZoneLowPct[k] + 10)
           /\ (age = 28 /\ resting_hr = 65) =>
                  /\ hr_zones.max_hr_estimated = 188
                  /\ hr_zones.hr_reserve = 123
                  /\ hr_zones.zones[1].min_bpm = 126
                  /\ hr_zones.zones[1].max_bpm = 140
    /\ (pc = "done" /\ entry = <<"utils", "tanaka">> /\ ZoneDomain) =>
           /\ ClaimRounds(hr_zones.max_hr, 2080 - 7 * age, 10)
           /\ hr_zones.hr_reserve = hr_zones.max_hr - resting_hr
           /\ \A k \in 1..5 :
                  ClaimKarvonenBound(hr_zones.zones[k].lower, resting_hr,
                                     hr_zones.hr_reserve, ZoneLowPct[k])
    /\ pc = "done" =>
           \A a \in ZoneMinAge..ZoneMaxAge :
               /\ ClaimRounds(calculate_max_heart_rate(a, "tanaka"), 2080 - 7 * a, 10)
               /\ calculate_max_heart_rate(a, "fox") = 220 - a
               /\ ClaimRounds(calculate_max_heart_rate(a, "nes"), 21100 - 64 * a, 100)

(***************************************************************************)
(* The estimates: HeartRateCalculator.calculate_calories_burned, and       *)
(* calculate_calories_burned and calculate_training_load of                *)
(* utils/calculations.py.                                                  *)
(*                                                                         *)
(* The factors of the regression have four decimals; the operators compute *)
(* with the numerators over 10^4.  Where the exact value of a product lies *)
(* on a half, its double lies on either side of it, and round() gives the  *)
(* integer below or the one above: both are outcomes of the call.          *)
(***************************************************************************)
MaxMinutes == 4

Weights == {40, 70, 120}
Genders == {"M", "m", "F"}
Minutes == 0..MaxMinutes

\* gender.upper()
Upper(g) == CASE g = "m" -> "M" [] g = "f" -> "F" [] OTHER -> g

\* what round(num / den) can give, den > 0 and num >= 0
RoundOutcomes(num, den) ==
    LET q == num \div den
        r == num % den
    IN  IF 2 * r > den THEN {q + 1}
        ELSE IF 2 * r < den THEN {q}
        ELSE {q, q + 1}

\* a floor of the rate that is lost when the total is rounded
HeartRateCalculator_calories_per_minute_floor2(a, weight_kg, heart_rate, gender) ==
    LET regression ==
            IF Upper(gender) = "M"
            THEN -550969 + 6309 * heart_rate + 1988 * weight_kg + 2017 * a
            ELSE -204022 + 4472 * heart_rate - 1263 * weight_kg + 740 * a
    IN  <<Max2(regression, 2 * 41840), 41840>>

\* lines 324-336: calories_per_minute as the fraction <<numerator, denominator>>;
\* 4.184 * 10^4 = 41840 and 3.0 is 125520 / 41840
HeartRateCalculator_calories_per_minute(a, weight_kg, heart_rate, gender) ==
    LET regression ==
            IF Upper(gender) = "M"
            THEN -550969 + 6309 * heart_rate + 1988 * weight_kg + 2017 * a
            ELSE -204022 + 4472 * heart_rate - 1263 * weight_kg + 740 * a
    IN  <<Max2(regression, 3 * 41840), 41840>>

\* the values HeartRateCalculator.calculate_calories_burned can return
HeartRateCalculator_calculate_calories_burned(a, weight_kg, heart_rate, duration_minutes, gender) ==
    LET cpm == HeartRateCalculator_calories_per_minute(a, weight_kg, heart_rate, gender)
    IN  {Max2(total_calories, 1) :
            total_calories \in RoundOutcomes(cpm[1] * duration_minutes, cpm[2])}

\* met_values, in tenths; a missing activity or intensity takes the defaults
Activities == {"walking", "running", "cycling", "swimming", "strength_training", "yoga",
               "dancing", "tennis", "soccer", "basketball"}
Intensities == {"low", "moderate", "high"}
met_values(activity_type) ==
    CASE activity_type = "walking" -> [low |-> 25, moderate |-> 38, high |-> 50]
      [] activity_type = "running" -> [low |-> 60, moderate |-> 80, high |-> 110]
      [] activity_type = "cycling" -> [low |-> 40, moderate |-> 68, high |-> 100]
      [] activity_type = "swimming" -> [low |-> 40, moderate |-> 60, high |-> 80]
      [] activity_type = "strength_training" -> [low |-> 30, moderate |-> 50, high |-> 60]
      [] activity_type = "yoga" -> [low |-> 20, moderate |-> 30, high |-> 40]
      [] activity_type = "dancing" -> [low |-> 30, moderate |-> 48, high |-> 60]
      [] activity_type = "tennis" -> [low |-> 50, moderate |-> 70, high |-> 80]
      [] activity_type = "soccer" -> [low |-> 70, moderate |-> 80, high |-> 100]
      [] activity_type = "basketball" -> [low |-> 60, moderate |-> 80, high |-> 100]
      [] OTHER -> [low |-> 30, moderate |-> 40, high |-> 50]
met_value(activity_type, intensity) ==
    IF intensity \in Intensities THEN met_values(activity_type)[intensity] ELSE 40

\* utils.calculations.calculate_calories_burned: the results the call can
\* give; round(calories / duration_minutes, 1) divides by the duration
calculate_calories_burned(activity_type, duration_minutes, weight_kg, intensity) ==
    IF duration_minutes = 0
    THEN {[status |-> "ZeroDivisionError"]}
    ELSE {[status |-> "returned",
           calories_burned |-> c,
           activity_type |-> activity_type,
           duration_minutes |-> duration_minutes,
           intensity |-> intensity,
           met_value |-> met_value(activity_type, intensity),
           calories_per_minute |-> m] :
             c \in RoundOutcomes(met_value(activity_type, intensity) * weight_kg
                                     * duration_minutes, 600),
             \* round(calories / duration_minutes, 1), in tenths
             m \in RoundOutcomes(met_value(activity_type, intensity) * weight_kg, 60)}

\* _get_intensity_zone of the fraction num / den, den # 0
get_intensity_zone(num, den) ==
    LET Below(tenths) == IF den > 0 THEN 10 * num < tenths * den ELSE 10 * num > tenths * den
    IN  IF Below(5) THEN "Muito Leve"
        ELSE IF Below(6) THEN "Leve"
        ELSE IF Below(7) THEN "Moderada"
        ELSE IF Below(8) THEN "Intensa"
        ELSE "Muito Intensa"

\* utils.calculations.calculate_training_load
calculate_training_load(duration_minutes, avg_heart_rate, max_heart_rate, resting_heart_rate) ==
    LET hr_reserve == max_heart_rate - resting_heart_rate
        num == duration_minutes * (avg_heart_rate - resting_heart_rate)
        \* trimp < limit, trimp = num / hr_reserve
        TrimpBelow(limit) == IF hr_reserve > 0 THEN num < limit * hr_reserve
                             ELSE num > limit * hr_reserve
    IN  IF hr_reserve = 0
        THEN [status |-> "ZeroDivisionError"]
        ELSE [status |-> "returned",
              load_category |-> IF TrimpBelow(50) THEN "baixa"
                                ELSE IF TrimpBelow(100) THEN "moderada"
                                ELSE IF TrimpBelow(150) THEN "alta"
                                ELSE "muito_alta",
              intensity_zone |-> get_intensity_zone(avg_heart_rate - resting_heart_rate,
                                                    hr_reserve)]

ActivityArgs == {"walking", "running", "yoga", "rowing"}
IntensityArgs == Intensities \cup {"extreme"}
LoadMinutes == {0, 30, 60, 90, 120, 200}
MaxHeartRates == {60, 150, 180, 200}

InitEstimates ==
    /\ pc = "ready"
    /\ \/ /\ entry = "HeartRateCalculator.calculate_calories_burned"
          /\ age \in Ages
          /\ current_hr \in CurrentHrs
          /\ args \in [weight_kg : Weights, gender : Genders]
          /\ session_duration \in Minutes
          /\ resting_hr = 0
       \/ /\ entry = "calculate_calories_burned"
          /\ age = 0
          /\ current_hr = 0
          /\ args \in [weight_kg : Weights, activity_type : ActivityArgs,
                        intensity : IntensityArgs]
          /\ session_duration \in Minutes
          /\ resting_hr = 0
       \/ /\ entry = "calculate_training_load"
          /\ age = 0
          /\ current_hr \in CurrentHrs
          /\ args \in [max_heart_rate : MaxHeartRates]
          /\ session_duration \in LoadMinutes
          /\ resting_hr = 60
    /\ fitness_level = "other"
    /\ health_conditions = <<>>
    /\ hr_zones = NoResult
    /\ current_zone = NoResult
    /\ preferences = <<>>
    /\ workout_type = "none"
    /\ available_equipment = <<>>
    /\ pool = <<>>
    /\ type_idx = 0
    /\ remaining_duration = 0
    /\ recommendations = <<>>
    /\ queries = <<>>
    /\ now = 0
    /\ previous = NoResult
    /\ tasks = <<>>
    /\ frames = <<>>
    /\ result = NoResult

CalculateCaloriesBurned ==
    /\ pc = "ready"
    /\ entry = "HeartRateCalculator.calculate_calories_burned"
    /\ \E calories \in HeartRateCalculator_calculate_calories_burned(
                            age, args.weight_kg, current_hr, session_duration, args.gender) :
           result' = [status |-> "returned", calories |-> calories]
    /\ pc' = "done"
    /\ UNCHANGED <<given, calls, current_hr, hr_zones, current_zone, rec_locals>>

MetCaloriesBurned ==
    /\ pc = "ready"
    /\ entry = "calculate_calories_burned"
    /\ \E r \in calculate_calories_burned(args.activity_type, session_duration,
                                           args.weight_kg, args.intensity) :
           result' = r
    /\ pc' = "done"
    /\ UNCHANGED <<given, calls, current_hr, hr_zones, current_zone, rec_locals>>

CalculateTrainingLoad ==
    /\ pc = "ready"
    /\ entry = "calculate_training_load"
    /\ result' = calculate_training_load(session_duration, current_hr,
                                          args.max_heart_rate, resting_hr)
    /\ pc' = "done"
    /\ UNCHANGED <<given, calls, current_hr, hr_zones, current_zone, rec_locals>>

NextEstimates == CalculateCaloriesBurned \/ MetCaloriesBurned \/ CalculateTrainingLoad

SpecEstimates == InitEstimates /\ [][NextEstimates]_vars

\* C24: the heart-rate regression estimate is floored at 3 kcal/min: for every
\* heart rate, weight, age, gender and duration d >= 1 minute,
\* HeartRateCalculator.calculate_calories_burned returns at least 3 * d kcal.
C24_CaloriesFloor ==
    (pc = "done" /\ entry = "HeartRateCalculator.calculate_calories_burned"
        /\ session_duration >= 1) =>
        /\ result.status = "returned"
        /\ result.calories >= 3 * session_duration

\* a call whose regression is negative (40 bpm, 40 kg, male, age 13) and whose
\* result is the floor itself
C24_Witness ==
    /\ pc = "done" /\ entry = "HeartRateCalculator.calculate_calories_burned"
    /\ current_hr = 40 /\ age = 13
    /\ args = [weight_kg |-> 40, gender |-> "M"]
    /\ session_duration = MaxMinutes
    /\ result.calories = 3 * MaxMinutes

\* C27: every engine computation returns a value and never ends in an
\* unhandled failure: the MET estimate calculate_calories_burned returns a
\* result for every duration >= 0, 0 minutes included, calculate_training_load
\* returns one when max heart rate = resting heart rate, and so does the
\* heart-rate regression estimate.
C27_EstimatesAlwaysReturn ==
    (pc = "done" /\ entry \in {"calculate_calories_burned", "calculate_training_load",
                                "HeartRateCalculator.calculate_calories_burned"}) =>
        result.status = "returned"

\* the repository calls of a call that meets no failure, in order
RECURSIVE Schedule(_)
Schedule(n) ==
    IF n = 0 THEN <<"get_user_by_id">>
    ELSE Schedule(n - 1) \o <<"get_exercises_by_type", "get_exercises_by_equipment">>
IsPrefix(s, t) == Len(s) <= Len(t) /\ SubSeq(t, 1, Len(s)) = s
DependencyFailed ==
    RecReturned /\ result.status = "error" /\ result.message # <<"nao encontrado">>
\* every query is issued once, in schedule order, and the failing one is the last
ClaimNoRetry ==
    DependencyFailed =>
        /\ IsPrefix(queries, Schedule(Len(exercise_types(workout_type))))
        /\ \/ queries = <<"get_user_by_id">>
           \/ Len(queries) \in {2 * type_idx, 2 * type_idx + 1}
ClaimNotFoundNoPool ==
    (RecReturned /\ result.status = "error" /\ result.message = <<"nao encontrado">>) =>
        queries = <<"get_user_by_id">>
\* the caller receives the failure itself, class and text
ClaimSurfacedUnchanged ==
    DependencyFailed => \E e \in DependencyErrors : result = [status |-> "raised", exception |-> e]

\* C25: recommend_exercises is fail-fast: when the profile lookup or an
\* exercise-pool query fails, that query is not issued again in the call, no
\* later dependency call is made, and the caller receives the failure
\* unchanged; when the profile lookup finds no user, the pool is never queried.
C25_FailFast == ClaimNoRetry /\ ClaimNotFoundNoPool /\ ClaimSurfacedUnchanged

\* C26: for current_hr 185, age 28, fitness level beginner and no health
\* conditions, check_heart_rate_safety reports safe_limit 141 and returns
\* risk level critical with safe = false.
C26_ExampleBeginner185 ==
    (SafetyReturned /\ current_hr = 185 /\ age = 28 /\ fitness_level = "beginner"
        /\ health_conditions = <<>>) =>
        /\ result.safe_limit = 141
        /\ result.risk_level = "critical"
        /\ result.safe = FALSE

\* C29: the safe flag and the risk level returned by check_heart_rate_safety
\* agree: for every current_hr, age in 13..120, fitness level and list of
\* health conditions, safe = true exactly when the risk level is low or
\* moderate, and safe = false exactly when it is high or critical.
C29_SafeAgreesWithRisk ==
    SafetyReturned =>
        /\ result.safe = TRUE <=> result.risk_level \in {"low", "moderate"}
        /\ result.safe = FALSE <=> result.risk_level \in {"high", "critical"}

C29_Witness ==
    /\ SafetyReturned
    /\ age = 20 /\ fitness_level = "beginner" /\ current_hr = 150
    /\ health_conditions = <<"arthritis">>
    /\ result.safe_limit = 150
    /\ result.safe = TRUE
    /\ result.risk_level = "moderate"

\* the picks that the selection step for one sub-type appends
NewPicks == SubSeq(recommendations', Len(recommendations) + 1, Len(recommendations'))
ClaimSelection(picks, candidates, total_duration) ==
    /\ \A i, j \in DOMAIN picks : picks[i].exercise_id = picks[j].exercise_id => i = j
    /\ \A i \in DOMAIN picks :
           /\ \E k \in DOMAIN candidates : candidates[k].id = picks[i].exercise_id
           /\ LET ex == ExerciseById(picks[i].exercise_id)
              IN  /\ picks[i].recommended_duration >= ex.duration_range[1]
                  /\ picks[i].recommended_duration <= ex.duration_range[2]
                  /\ picks[i].recommended_duration > 0
    /\ SumDurations(picks) <= Max2(total_duration, 0)
    /\ total_duration <= 0 => picks = <<>>

Tasks == {1, 2}
StoredUsers == {"u1", "u2"}
UserIds == StoredUsers \cup {"ghost"}
\* the rows of the profile store
Store ==
    [u \in StoredUsers |->
        IF u = "u1"
        THEN [age |-> 20, resting_heart_rate |-> 0, fitness_level |-> "beginner",
              health_conditions |-> <<>>, preferences |-> <<>>]
        ELSE [age |-> 70, resting_heart_rate |-> 50, fitness_level |-> "intermediate",
              health_conditions |-> <<"diabetes">>, preferences |-> <<"cardio">>]]
PairCurrentHrs == {107, 195}
PairDurations == {30}
PairWorkoutTypes == {"mixed", "cardio"}
PairEquipment == {<<"none">>}

\* locals kept as attributes of the one ExerciseManager instance
frame_on_instance(t) == 1

\* the frame in which a task's locals live: a coroutine has its own
frame(t) == t

NoFrame == [user |-> Store["u1"], current_zone |-> NoResult, remaining_duration |-> 0,
            recommendations |-> <<>>]

InitPair ==
    /\ pc = "ready"
    /\ entry = "recommend_exercises"
    /\ age = 20
    /\ resting_hr = 0
    /\ fitness_level = "beginner"
    /\ health_conditions = <<>>
    /\ preferences = <<>>
    /\ current_hr = 0
    /\ session_duration = 0
    /\ workout_type = "none"
    /\ available_equipment = <<>>
    /\ pool \in Pools
    /\ hr_zones = NoResult
    /\ current_zone = NoResult
    /\ type_idx = 0
    /\ remaining_duration = 0
    /\ recommendations = <<>>
    /\ queries = <<>>
    /\ result = NoResult
    /\ now = 0
    /\ previous = NoResult
    /\ args = <<>>
    /\ tasks \in [Tasks -> [pc : {"ready"}, user_id : UserIds, current_hr : PairCurrentHrs,
                           session_duration : PairDurations,
                           workout_type : PairWorkoutTypes,
                           available_equipment : PairEquipment,
                           type_idx : {0}, overlapped : {FALSE}, result : {NoResult}]]
    /\ frames = [f \in Tasks |-> NoFrame]

\* another coroutine is suspended at one of its awaits
OtherInFlight(t) == \E o \in Tasks \ {t} : tasks[o].pc \notin {"ready", "done"}

\* task t resumes: its position, its result and whether it overlapped another
Resume(t, position, idx, r) ==
    tasks' = [tasks EXCEPT ![t].pc = position, ![t].type_idx = idx, ![t].result = r,
                           ![t].overlapped = @ \/ OtherInFlight(t)]
PairUnchanged ==
    UNCHANGED <<pc, given, current_hr, hr_zones, current_zone, rec_locals, result, now,
                previous>>

TaskGetUserRaises(t) ==
    /\ tasks[t].pc = "ready"
    /\ \E e \in DependencyErrors : Resume(t, "done", 0, except_Exception(e))
    /\ UNCHANGED frames
    /\ PairUnchanged

TaskUserNotFound(t) ==
    /\ tasks[t].pc = "ready"
    /\ tasks[t].user_id \notin DOMAIN Store
    /\ Resume(t, "done", 0, [status |-> "error", message |-> <<"nao encontrado">>])
    /\ UNCHANGED frames
    /\ PairUnchanged

TaskUnsafe(t) ==
    /\ tasks[t].pc = "ready"
    /\ tasks[t].user_id \in DOMAIN Store
    /\ LET user == Store[tasks[t].user_id]
           safety_check == check_heart_rate_safety(tasks[t].current_hr, user.age,
                                                   user.fitness_level,
                                                   user.health_conditions)
       IN  /\ ~safety_check.safe
           /\ Resume(t, "done", 0,
                     [status |-> "warning",
                      message |-> <<"FC fora da zona segura">>,
                      safety_alerts |-> safety_check.alerts,
                      recommendations |-> <<"Reduza a intensidade",
                                            "Descanse antes de continuar">>])
    /\ UNCHANGED frames
    /\ PairUnchanged

TaskBegin(t) ==
    /\ tasks[t].pc = "ready"
    /\ tasks[t].user_id \in DOMAIN Store
    /\ LET user == Store[tasks[t].user_id]
           zones_data == calculate_heart_rate_zones(
                             user.age,
                             resting_or_estimate(user.resting_heart_rate, user.age,
                                                 user.fitness_level),
                             "karvonen")
       IN  /\ check_heart_rate_safety(tasks[t].current_hr, user.age, user.fitness_level,
                                      user.health_conditions).safe
           /\ frames' = [frames EXCEPT ![frame(t)] =
                            [user |-> user,
                             current_zone |-> determine_heart_rate_zone(tasks[t].current_hr,
                                                                        zones_data.zones),
                             remaining_duration |-> tasks[t].session_duration,
                             recommendations |-> <<>>]]
    /\ Resume(t, "get_exercises_by_type", 1, NoResult)
    /\ PairUnchanged

TaskGetByType(t) ==
    /\ tasks[t].pc = "get_exercises_by_type"
    /\ Resume(t, "get_exercises_by_equipment", tasks[t].type_idx, NoResult)
    /\ UNCHANGED frames
    /\ PairUnchanged

TaskGetByTypeRaises(t) ==
    /\ tasks[t].pc = "get_exercises_by_type"
    /\ \E e \in DependencyErrors : Resume(t, "done", tasks[t].type_idx, except_Exception(e))
    /\ UNCHANGED frames
    /\ PairUnchanged

TaskSelect(t) ==
    /\ tasks[t].pc = "get_exercises_by_equipment"
    /\ LET locals == frames[frame(t)]
           types == exercise_types(tasks[t].workout_type)
           selected_exercises ==
               picks_for_type(types[tasks[t].type_idx], tasks[t].workout_type,
                              locals.remaining_duration, tasks[t].session_duration,
                              locals.user.fitness_level, locals.user.preferences,
                              locals.current_zone, tasks[t].available_equipment, pool)
           recs == locals.recommendations \o selected_exercises
       IN  /\ frames' = [frames EXCEPT
                            ![frame(t)].recommendations = recs,
                            ![frame(t)].remaining_duration =
                                @ - SumDurations(selected_exercises)]
           /\ IF tasks[t].type_idx < Len(types)
              THEN Resume(t, "get_exercises_by_type", tasks[t].type_idx + 1, NoResult)
              ELSE Resume(t, "done", tasks[t].type_idx,
                          [status |-> "success",
                           current_hr |-> tasks[t].current_hr,
                           current_zone |-> locals.current_zone.zone_id,
                           session_duration |-> tasks[t].session_duration,
                           workout_type |-> tasks[t].workout_type,
                           recommendations |-> recs,
                           safety_notes |-> get_safety_notes(locals.user.age,
                                                             locals.user.health_conditions,
                                                             locals.current_zone),
                           generated_at |-> now])
    /\ PairUnchanged

TaskGetByEquipmentRaises(t) ==
    /\ tasks[t].pc = "get_exercises_by_equipment"
    /\ \E e \in DependencyErrors : Resume(t, "done", tasks[t].type_idx, except_Exception(e))
    /\ UNCHANGED frames
    /\ PairUnchanged

NextPair ==
    \/ \E t \in Tasks : TaskGetUserRaises(t)
    \/ \E t \in Tasks : TaskUserNotFound(t)
    \/ \E t \in Tasks : TaskUnsafe(t)
    \/ \E t \in Tasks : TaskBegin(t)
    \/ \E t \in Tasks : TaskGetByType(t)
    \/ \E t \in Tasks : TaskGetByTypeRaises(t)
    \/ \E t \in Tasks : TaskSelect(t)
    \/ \E t \in Tasks : TaskGetByEquipmentRaises(t)

SpecPair == InitPair /\ [][NextPair]_vars

\* lines 225-273 run without another call: the picks of the sub-types from
\* the k-th on
RECURSIVE generate_exercise_recommendations(_, _, _, _, _, _)
generate_exercise_recommendations(user, call, zone, k, remaining, recs) ==
    LET types == exercise_types(call.workout_type)
    IN  IF k > Len(types) THEN recs
        ELSE LET selected_exercises ==
                     picks_for_type(types[k], call.workout_type, remaining,
                                    call.session_duration, user.fitness_level,
                                    user.preferences, zone, call.available_equipment, pool)
             IN  generate_exercise_recommendations(
                     user, call, zone, k + 1,
                     remaining - SumDurations(selected_exercises),
                     recs \o selected_exercises)

\* the results recommend_exercises can return for a call that runs alone
\* against the store and the pool, whatever its dependencies do
recommend_exercises_alone(call) ==
    {except_Exception(e) : e \in DependencyErrors} \cup
    (IF call.user_id \notin DOMAIN Store
     THEN {[status |-> "error", message |-> <<"nao encontrado">>]}
     ELSE LET user == Store[call.user_id]
              safety_check == check_heart_rate_safety(call.current_hr, user.age,
                                                      user.fitness_level,
                                                      user.health_conditions)
              zone == determine_heart_rate_zone(
                          call.current_hr,
                          calculate_heart_rate_zones(
                              user.age,
                              resting_or_estimate(user.resting_heart_rate, user.age,
                                                  user.fitness_level),
                              "karvonen").zones)
          IN  IF ~safety_check.safe
              THEN {[status |-> "warning",
                     message |-> <<"FC fora da zona segura">>,
                     safety_alerts |-> safety_check.alerts,
                     recommendations |-> <<"Reduza a intensidade",
                                           "Descanse antes de continuar">>]}
              ELSE {[status |-> "success",
                     current_hr |-> call.current_hr,
                     current_zone |-> zone.zone_id,
                     session_duration |-> call.session_duration,
                     workout_type |-> call.workout_type,
                     recommendations |->
                         generate_exercise_recommendations(user, call, zone, 1,
                                                           call.session_duration, <<>>),
                     safety_notes |-> get_safety_notes(user.age, user.health_conditions,
                                                       zone),
                     generated_at |-> now]})

TaskReturned(t) == tasks # <<>> /\ tasks[t].pc = "done"
\* a frame changes only in a step of the task it belongs to
ClaimOwnFrameOnly ==
    \A t \in Tasks :
        (tasks # <<>> /\ frames'[t] # frames[t]) =>
            /\ tasks'[t] # tasks[t]
            /\ \A o \in Tasks \ {t} : tasks'[o] = tasks[o]
ClaimSameAsAlone ==
    \A t \in Tasks : TaskReturned(t) => tasks[t].result \in recommend_exercises_alone(tasks[t])

====
